---------------------------- MODULE Spec2Model ----------------------------
(***************************************************************************)
(* A model of the analysis and scoring core of the YouTube SEO tool:       *)
(*   src/src/analyzer/content_analyzer.py   ContentAnalyzer                *)
(*   src/src/generator/seo_generator.py     SEOGenerator (scoring)         *)
(*   src/src/research/keyword_researcher.py KeywordResearcher (scoring)    *)
(*                                                                         *)
(* A Python str is a tuple of one-character strings, so that len, strip,   *)
(* lower, tokenisation and concatenation are computed, not assumed.        *)
(* Floating-point numbers are fixed-point integers whose unit is named     *)
(* where they are introduced; binary rounding is not modelled.             *)
(***************************************************************************)
EXTENDS Integers, Sequences, FiniteSets, TLC

VARIABLES
    vocabulary,   \* self.vectorizer.vocabulary_ : the terms of the last successful fit ({} = never fitted)
    op,           \* the operation of the request in hand ("idle" between requests)
    args,         \* its arguments
    outcome,      \* how it ended: [status |-> "returned", value |-> ...] or [status |-> "raised", exc |-> ...]
    failed,       \* the analysis engines that raised while it ran (history of the request)
    previous      \* the vocabulary the vectorizer held when the request began (history)

vars == <<vocabulary, op, args, outcome, failed, previous>>

---------------------------------------------------------------------------
(* Characters and strings.                                                 *)

LowercaseLetters == <<"a","b","c","d","e","f","g","h","i","j","k","l","m",
                      "n","o","p","q","r","s","t","u","v","w","x","y","z">>
UppercaseLetters == <<"A","B","C","D","E","F","G","H","I","J","K","L","M",
                      "N","O","P","Q","R","S","T","U","V","W","X","Y","Z">>
Digits == <<"0","1","2","3","4","5","6","7","8","9">>

Range(s) == {s[i] : i \in DOMAIN s}

LowercaseSet == Range(LowercaseLetters)
UppercaseSet == Range(UppercaseLetters)
DigitSet == Range(Digits)
WordCharSet == LowercaseSet \cup UppercaseSet \cup DigitSet \cup {"_"}
SpaceSet == {" ", "\t", "\n"}

\* f as an explicit table (the same function)
Table(f) == f @@ f

\* str.lower() on the letters it changes
LowerOf == Table([c \in UppercaseSet |->
               LowercaseLetters[CHOOSE i \in DOMAIN UppercaseLetters : UppercaseLetters[i] = c]])

LowerChar(c) == IF c \in UppercaseSet THEN LowerOf[c] ELSE c

\* str.lower()
lower(s) == [i \in DOMAIN s |-> LowerChar(s[i])]

\* the regular expression class \w (ASCII part)
IsWordChar(c) == c \in WordCharSet

\* what str.strip() removes
IsSpace(c) == c \in SpaceSet

\* the truth value of t.strip(): some character is not white space
strip_nonempty(t) == \E i \in DOMAIN t : ~IsSpace(t[i])

\* the code points of the characters of the vectorizer's terms, for the order
\* in which Python sorts strings
CodePoint == Table(
    [c \in {" "} |-> 32]
    @@ [c \in DigitSet |-> 47 + (CHOOSE i \in DOMAIN Digits : Digits[i] = c)]
    @@ [c \in UppercaseSet |-> 64 + (CHOOSE i \in DOMAIN UppercaseLetters : UppercaseLetters[i] = c)]
    @@ [c \in {"_"} |-> 95]
    @@ [c \in LowercaseSet |-> 96 + (CHOOSE i \in DOMAIN LowercaseLetters : LowercaseLetters[i] = c)])

ord(c) == CodePoint[c]

\* s < t for Python strings (lexicographic by code point)
RECURSIVE StrLess(_, _)
StrLess(s, t) ==
    IF t = <<>> THEN FALSE
    ELSE IF s = <<>> THEN TRUE
    ELSE IF ord(Head(s)) # ord(Head(t)) THEN ord(Head(s)) < ord(Head(t))
    ELSE StrLess(Tail(s), Tail(t))

\* min(S) for a non-empty set of strings
Least(S) == CHOOSE x \in S : \A y \in S \ {x} : StrLess(x, y)

\* sorted(S) for a set of strings
RECURSIVE sorted(_)
sorted(S) == IF S = {} THEN <<>> ELSE <<Least(S)>> \o sorted(S \ {Least(S)})

\* f"{a} {b}"
JoinSpace(a, b) == a \o <<" ">> \o b

---------------------------------------------------------------------------
(* The text vectorizer: TfidfVectorizer(max_features=1000,                 *)
(* stop_words='english', ngram_range=(1, 2)), content_analyzer.py:45-49.   *)

max_features == 1000

\* The entries of the 'english' stop-word list that the sample texts use.
StopWords == { <<"t","h","e">>, <<"a","n","d">>, <<"i","s">>, <<"a","n">>, <<"o","f">> }

\* The word tokens of a text: maximal runs of \w characters (regex \b\w+\b)
RECURSIVE WordRuns(_, _)
WordRuns(s, cur) ==
    IF s = <<>> THEN (IF cur = <<>> THEN <<>> ELSE <<cur>>)
    ELSE IF IsWordChar(Head(s)) THEN WordRuns(Tail(s), Append(cur, Head(s)))
    ELSE (IF cur = <<>> THEN <<>> ELSE <<cur>>) \o WordRuns(Tail(s), <<>>)

\* s filtered by a predicate on its elements, order kept
RECURSIVE DropStopWords(_)
DropStopWords(toks) ==
    IF toks = <<>> THEN <<>>
    ELSE (IF Head(toks) \in StopWords THEN <<>> ELSE <<Head(toks)>>) \o DropStopWords(Tail(toks))

RECURSIVE KeepLongTokens(_)
KeepLongTokens(toks) ==
    IF toks = <<>> THEN <<>>
    ELSE (IF Len(Head(toks)) >= 2 THEN <<Head(toks)>> ELSE <<>>) \o KeepLongTokens(Tail(toks))

\* the unigrams followed by the bigrams of adjacent tokens (ngram_range=(1, 2))
_word_ngrams(toks) ==
    toks \o (IF Len(toks) < 2 THEN <<>>
             ELSE [i \in 1..(Len(toks) - 1) |-> JoinSpace(toks[i], toks[i + 1])])

\* the vectorizer's analyzer on one document: lower-case, tokens of two or
\* more word characters (token_pattern (?u)\b\w\w+\b), stop words dropped,
\* then the n-grams of the remaining tokens
analyzer(doc) == _word_ngrams(DropStopWords(KeepLongTokens(WordRuns(lower(doc), <<>>))))

\* the terms of a corpus; with more than max_features terms the vectorizer
\* keeps the most frequent ones, which no corpus of the sizes explored reaches
CorpusTerms(texts) == UNION { Range(analyzer(texts[i])) : i \in DOMAIN texts }

\* fit_transform raises ValueError("empty vocabulary; ...") when no term is left
FitRaises(texts) == CorpusTerms(texts) = {}

\* a fit that adds the new terms to the ones the vectorizer already held
fit_vocabulary_keeping_old(vocab, texts) == vocab \cup CorpusTerms(texts)

\* the vocabulary_ a successful self.vectorizer.fit_transform(texts) leaves in a
\* vectorizer that held vocab: the fit starts from nothing, whatever it held
fit_vocabulary(vocab, texts) == CorpusTerms(texts)

\* get_feature_names_out(): the vocabulary in sorted order (feature index order)
feature_names(vocab) == sorted(vocab)

\* number of occurrences of x in sequence s
Count(s, x) == Cardinality({i \in DOMAIN s : s[i] = x})

\* 1000 * ln(k), rounded, for the document counts that occur
Ln1000 == <<0, 693, 1099, 1386, 1609, 1792, 1946, 2079, 2197, 2303, 2398, 2485>>

\* smooth idf, in thousandths: ln((1 + n) / (1 + df)) + 1
Idf1000(n, df) == Ln1000[1 + n] - Ln1000[1 + df] + 1000

\* floor of the square root
RECURSIVE ISqrtBetween(_, _, _)
ISqrtBetween(x, lo, hi) ==
    IF lo >= hi THEN lo
    ELSE LET mid == (lo + hi + 1) \div 2
         IN  IF mid * mid <= x THEN ISqrtBetween(x, mid, hi) ELSE ISqrtBetween(x, lo, mid - 1)

ISqrt(x) == ISqrtBetween(x, 0, 46340)

\* the sequence s as an explicit tuple (the same value)
Tuple(s) == SubSeq(s, 1, Len(s))

RECURSIVE SumSeq(_)
SumSeq(s) == IF s = <<>> THEN 0 ELSE Head(s) + SumSeq(Tail(s))

\* the terms of each document, in document order
DocumentTerms(texts) == Tuple([i \in DOMAIN texts |-> analyzer(texts[i])])

\* for each feature the number of documents that have it
DocumentFrequency(terms, names) ==
    Tuple([j \in DOMAIN names |->
        Cardinality({i \in DOMAIN terms : Count(terms[i], names[j]) > 0})])

\* term count times idf, in thousandths
RawWeights(terms, names, df) ==
    Tuple([i \in DOMAIN terms |->
        Tuple([j \in DOMAIN names |-> Count(terms[i], names[j]) * Idf1000(Len(terms), df[j])])])

\* the Euclidean length of a row
RowNorm(row) == ISqrt(SumSeq([j \in DOMAIN row |-> row[j] * row[j]]))

\* a row scaled to unit length (norm='l2'), in thousandths; a row of zeros stays
ScaleRow(row, norm) ==
    Tuple([j \in DOMAIN row |-> IF norm = 0 THEN 0 ELSE (row[j] * 1000) \div norm])

Normalize(raw) == Tuple([i \in DOMAIN raw |-> ScaleRow(raw[i], RowNorm(raw[i]))])

Weigh(terms, names) == Normalize(RawWeights(terms, names, DocumentFrequency(terms, names)))

\* fit_transform(texts): the TF-IDF matrix, one row per document, one column
\* per feature of the fitted vocabulary (names, in index order), each row
\* scaled to unit Euclidean length; entries in thousandths
tfidf_matrix(texts, names) == Weigh(DocumentTerms(texts), names)

---------------------------------------------------------------------------
(* The clustering engine: KMeans(n_clusters, random_state=42) and          *)
(* _get_cluster_keywords, content_analyzer.py:115-143 and 216-231.         *)

max_clusters == 5
top_keywords == 5

Min(a, b) == IF a <= b THEN a ELSE b
Max(a, b) == IF a >= b THEN a ELSE b

SetMax(S) == CHOOSE x \in S : \A y \in S : y <= x
SetMin(S) == CHOOSE x \in S : \A y \in S : x <= y

\* kmeans.fit_predict(X): the label vectors the fit can produce.  The seeded
\* initialisation draws its centres from the rows of X; which row seeds which
\* centre is not derivable from the source, so every naming is possible.
\* Equal rows are at equal distance from every centre and get one label; with
\* d distinct rows the fit separates min(k, d) groups and labels them from 0.
KMeansLabelings(X, k) ==
    LET rows == Range(X)
        used == 0..(Min(k, Cardinality(rows)) - 1)
        maps == {m \in [rows -> used] : {m[r] : r \in rows} = used}
    IN  {[i \in DOMAIN X |-> m[X[i]]] : m \in maps}

\* the feature indices in the order avg_scores.argsort()[-5:][::-1] lists them:
\* argsort is ascending and keeps equal scores in index order, the slice takes
\* the last five, the reversal puts the highest score (and, among equal scores,
\* the highest index) first
RECURSIVE ArgsortDescending(_, _)
ArgsortDescending(scores, idx) ==
    IF idx = {} THEN <<>>
    ELSE LET best == CHOOSE j \in idx : \A i \in idx \ {j} :
                        scores[i] < scores[j] \/ (scores[i] = scores[j] /\ i < j)
         IN  <<best>> \o ArgsortDescending(scores, idx \ {best})

TopIndices(scores, howmany) ==
    SubSeq(ArgsortDescending(scores, DOMAIN scores), 1, Min(howmany, Len(scores)))

\* _get_cluster_keywords: for each cluster id up to the largest label, the names
\* of the features with the highest mean TF-IDF weight over the cluster's rows.
\* The mean over a cluster with no row divides by zero and raises.
_get_cluster_keywords(X, clusters, names) ==
    LET ids     == 0..SetMax(Range(clusters))
        members == [c \in ids |-> {i \in DOMAIN X : clusters[i] = c}]
        avg     == [c \in ids |-> Tuple([j \in DOMAIN names |->
                       SumSeq([i \in DOMAIN X |-> IF i \in members[c] THEN X[i][j] ELSE 0])
                           \div Max(1, Cardinality(members[c]))])]
    IN  IF \E c \in ids : members[c] = {}
        THEN [raised |-> TRUE, value |-> <<>>]
        ELSE [raised |-> FALSE,
              value  |-> Tuple([c \in 1..Cardinality(ids) |->
                             LET top == TopIndices(avg[c - 1], top_keywords)
                             IN  Tuple([r \in DOMAIN top |-> names[top[r]]])])]

\* texts = [title, description] + comments; texts = [t for t in texts if t.strip()]
RECURSIVE NonBlank(_)
NonBlank(texts) ==
    IF texts = <<>> THEN <<>>
    ELSE (IF strip_nonempty(Head(texts)) THEN <<Head(texts)>> ELSE <<>>) \o NonBlank(Tail(texts))

\* _cluster_content without its except clause: the failure reaches the caller
ClusterFailurePropagates(vocab) == [value |-> <<>>, raised |-> TRUE, vocabulary |-> vocab]

\* the except clause of _cluster_content (line 142-143)
ClusterFailure(vocab) ==
    [value      |-> [error |-> "str(e)", clusters |-> <<>>, cluster_keywords |-> <<>>],
     raised     |-> FALSE,
     vocabulary |-> vocab]

\* lines 136-140: the result for one labelling; a failure while the keywords
\* are extracted is inside the try block as well
ClusterOutcome(fitted, clusters, kw) ==
    IF kw.raised
    THEN ClusterFailure(fitted)
    ELSE [value      |-> [clusters |-> clusters, cluster_keywords |-> kw.value],
          raised     |-> FALSE,
          vocabulary |-> fitted]

\* lines 129-140 for a fitted vocabulary, its feature names and matrix X
ClusterMatrix(fitted, names, X, n_clusters) ==
    { ClusterOutcome(fitted, clusters, _get_cluster_keywords(X, clusters, names))
        : clusters \in KMeansLabelings(X, n_clusters) }

ClusterFitted(fitted, names, texts) ==
    ClusterMatrix(fitted, names, tfidf_matrix(texts, names), Min(max_clusters, Len(texts)))

\* ClusterTexts without the early return of line 121-122: an empty list of
\* texts goes to the vectorizer
ClusterTextsAlwaysFitting(vocab, texts) ==
    IF FitRaises(texts)
    THEN {ClusterFailure(vocab)}
    ELSE ClusterFitted(fit_vocabulary(vocab, texts), feature_names(fit_vocabulary(vocab, texts)), texts)

\* lines 121-143 for the non-blank texts
ClusterTexts(vocab, texts) ==
    IF texts = <<>>
    THEN {[value |-> [clusters |-> <<>>, cluster_keywords |-> <<>>], raised |-> FALSE, vocabulary |-> vocab]}
    ELSE IF FitRaises(texts)
    THEN {ClusterFailure(vocab)}
    ELSE ClusterFitted(fit_vocabulary(vocab, texts), feature_names(fit_vocabulary(vocab, texts)), texts)

\* _cluster_content(title, description, comments) with the vectorizer holding
\* vocabulary vocab: the set of its possible outcomes, each the value returned
\* (or raised |-> TRUE) and the vocabulary the vectorizer holds afterwards.
\* A fit that raises leaves the vectorizer's previous vocabulary in place.
_cluster_content(vocab, title, description, comments) ==
    ClusterTexts(vocab, NonBlank(<<title, description>> \o comments))

---------------------------------------------------------------------------
(* The sentiment aggregator: SentimentIntensityAnalyzer (VADER) and         *)
(* _analyze_sentiment, content_analyzer.py:44 and 71-93.                   *)

\* The entries of the VADER lexicon that the sample texts use, in tenths.
Valence10(word) ==
    IF word = <<"g","o","o","d">> THEN 19
    ELSE IF word = <<"b","a","d">> THEN -25
    ELSE IF word = <<"w","a","n","t">> THEN 3
    ELSE 0

\* text.split(): the maximal runs of characters that are not white space
RECURSIVE split(_, _)
split(s, cur) ==
    IF s = <<>> THEN (IF cur = <<>> THEN <<>> ELSE <<cur>>)
    ELSE IF ~IsSpace(Head(s)) THEN split(Tail(s), Append(cur, Head(s)))
    ELSE (IF cur = <<>> THEN <<>> ELSE <<cur>>) \o split(Tail(s), <<>>)

\* VADER's normalisation x / sqrt(x * x + 15) rounded to four decimals, by the
\* absolute summed valence in tenths (0 .. 60); the value is in ten-thousandths
NormalizeTable ==
    <<0, 258, 516, 772, 1027, 1280, 1531, 1779, 2023, 2263,
      2500, 2732, 2960, 3182, 3400, 3612, 3818, 4019, 4215, 4404,
      4588, 4767, 4939, 5106, 5267, 5423, 5574, 5719, 5859, 5994,
      6124, 6249, 6369, 6486, 6597, 6705, 6808, 6908, 7003, 7096,
      7184, 7269, 7351, 7430, 7506, 7579, 7650, 7717, 7783, 7845,
      7906, 7964, 8020, 8074, 8126, 8176, 8225, 8271, 8316, 8360,
      8402>>

Normalize10000(sum10) ==
    IF sum10 >= 0 THEN NormalizeTable[sum10 + 1] ELSE 0 - NormalizeTable[(0 - sum10) + 1]

\* round(1000 * a / b)
Ratio1000(a, b) == (2000 * a + b) \div (2 * b)

\* the valence of each word
Valences(words) == Tuple([i \in DOMAIN words |-> Valence10(words[i])])

\* VADER's sums over the valences v, in tenths: a positive word counts its
\* valence + 1, a negative word 1 - valence, a neutral word 1
PosSum10(v) == SumSeq([i \in DOMAIN v |-> IF v[i] > 0 THEN v[i] + 10 ELSE 0])
NegSum10(v) == SumSeq([i \in DOMAIN v |-> IF v[i] < 0 THEN 10 - v[i] ELSE 0])
NeuSum10(v) == SumSeq([i \in DOMAIN v |-> IF v[i] = 0 THEN 10 ELSE 0])

\* compound is in ten-thousandths, pos / neu / neg in thousandths
Proportions(sum10, pos10, neg10, neu10) ==
    [compound |-> Normalize10000(sum10),
     pos      |-> Ratio1000(pos10, pos10 + neg10 + neu10),
     neu      |-> Ratio1000(neu10, pos10 + neg10 + neu10),
     neg      |-> Ratio1000(neg10, pos10 + neg10 + neu10)]

score_valence(v) ==
    IF v = <<>>
    THEN [compound |-> 0, pos |-> 0, neu |-> 0, neg |-> 0]
    ELSE Proportions(SumSeq(v), PosSum10(v), NegSum10(v), NeuSum10(v))

\* sia.polarity_scores(text) for texts of lexicon and neutral words without
\* negation, capitalisation emphasis or punctuation emphasis
polarity_scores(text) == score_valence(Valences(split(lower(text), <<>>)))

\* A float that is the quotient num / den; den = 0 is the value 0.0 / 0
\* evaluates to in numpy: not-a-number.
IsNaN(x) == x.den = 0

\* np.mean(values): the sum over the count; for an empty list numpy divides
\* 0.0 by 0, warns and returns nan without raising
np_mean(values) == [num |-> SumSeq(values), den |-> Len(values)]

positive_threshold == 2000
negative_threshold == -2000

\* the bucket tests of lines 89-91, on a compound score in ten-thousandths;
\* IsPositiveAboveZero is IsPositive with the threshold 0 in place of 0.2
IsPositiveAboveZero(compound) == compound > 0
IsPositive(compound) == compound > positive_threshold
IsNeutral(compound) == negative_threshold <= compound /\ compound <= positive_threshold
IsNegative(compound) == compound < negative_threshold

\* [s[key] for s in comment_sentiments]
Column(comment_sentiments, key) ==
    Tuple([i \in DOMAIN comment_sentiments |-> comment_sentiments[i][key]])

\* lines 78-92
Aggregate(content_sentiment, comment_sentiments) ==
    [content_sentiment |-> content_sentiment,
     comment_sentiment |->
        [compound |-> np_mean(Column(comment_sentiments, "compound")),
         pos      |-> np_mean(Column(comment_sentiments, "pos")),
         neu      |-> np_mean(Column(comment_sentiments, "neu")),
         neg      |-> np_mean(Column(comment_sentiments, "neg"))],
     sentiment_distribution |->
        [positive |-> Cardinality({i \in DOMAIN comment_sentiments :
                                      IsPositive(comment_sentiments[i].compound)}),
         neutral  |-> Cardinality({i \in DOMAIN comment_sentiments :
                                      IsNeutral(comment_sentiments[i].compound)}),
         negative |-> Cardinality({i \in DOMAIN comment_sentiments :
                                      IsNegative(comment_sentiments[i].compound)})]]

\* _analyze_sentiment(title, description, comments)
_analyze_sentiment(title, description, comments) ==
    Aggregate(polarity_scores(JoinSpace(title, description)),
              Tuple([i \in DOMAIN comments |-> polarity_scores(comments[i])]))

---------------------------------------------------------------------------
(* The keyword metrics engine: _analyze_trends, _analyze_keywords and      *)
(* _find_related_keywords, content_analyzer.py:95-113, 145-171, 245-269.   *)

related_window == 6
related_limit == 5

\* _analyze_content_structure: the two lengths of its result
_analyze_content_structure(title, description) ==
    [title_length |-> Len(title), description_length |-> Len(description)]

\* the regular expression assertion \b at position p of s (before s[p]; p =
\* Len(s) + 1 is the end): exactly one of the characters on its two sides is
\* a word character
IsBoundary(s, p) ==
    (p > 1 /\ IsWordChar(s[p - 1])) # (p <= Len(s) /\ IsWordChar(s[p]))

\* one character of the pattern re.escape(keyword) against one of the text:
\* every character stands for itself
CharMatches(p, c) == p = c

\* r'\b' + re.escape(pat) + r'\b' matches s at position i
MatchesAt(s, pat, i) ==
    /\ i + Len(pat) - 1 <= Len(s)
    /\ \A j \in DOMAIN pat : CharMatches(pat[j], s[i + j - 1])
    /\ IsBoundary(s, i)
    /\ IsBoundary(s, i + Len(pat))

\* len(re.findall(...)): the matches found from position i on, left to right,
\* each search starting where the previous match ended
RECURSIVE CountMatches(_, _, _)
CountMatches(s, pat, i) ==
    IF i > Len(s) + 1 THEN 0
    ELSE IF MatchesAt(s, pat, i) THEN 1 + CountMatches(s, pat, i + Max(1, Len(pat)))
    ELSE CountMatches(s, pat, i + 1)

\* keyword_count / len(words) without the test of words
DensityUnguarded(keyword_count, words) == [num |-> keyword_count, den |-> Len(words)]

\* keyword_count / len(words) if words else 0, as the quotient num / den
Density(keyword_count, words) ==
    IF words # <<>> THEN [num |-> keyword_count, den |-> Len(words)] ELSE [num |-> 0, den |-> 1]

\* _calculate_keyword_density(text, keyword)
_calculate_keyword_density(text, keyword) ==
    Density(CountMatches(Tuple(lower(text)), Tuple(lower(keyword)), 1),
            WordRuns(lower(text), <<>>))

\* None
None == "None"

\* s.rfind(sub): the offset of the last occurrence
rfind(s, sub) ==
    IF \E i \in 1..(Len(s) - Len(sub) + 1) : SubSeq(s, i, i + Len(sub) - 1) = sub
    THEN (CHOOSE i \in 1..(Len(s) - Len(sub) + 1) :
            /\ SubSeq(s, i, i + Len(sub) - 1) = sub
            /\ \A k \in (i + 1)..(Len(s) - Len(sub) + 1) : SubSeq(s, k, k + Len(sub) - 1) # sub) - 1
    ELSE -1

\* s.find(sub): the offset, from 0, of the first occurrence of sub in s, or -1
find(s, sub) ==
    IF \E i \in 1..(Len(s) - Len(sub) + 1) : SubSeq(s, i, i + Len(sub) - 1) = sub
    THEN (CHOOSE i \in 1..(Len(s) - Len(sub) + 1) :
            /\ SubSeq(s, i, i + Len(sub) - 1) = sub
            /\ \A k \in 1..(i - 1) : SubSeq(s, k, k + Len(sub) - 1) # sub) - 1
    ELSE -1

\* lines 238-243
PositionReport(title_pos, desc_pos) ==
    [in_title             |-> title_pos # -1,
     title_position       |-> IF title_pos # -1 THEN title_pos ELSE None,
     in_description       |-> desc_pos # -1,
     description_position |-> IF desc_pos # -1 THEN desc_pos ELSE None]

\* _analyze_keyword_position(title, description, keyword)
_analyze_keyword_position(title, description, keyword) ==
    PositionReport(find(Tuple(lower(title)), Tuple(lower(keyword))),
                   find(Tuple(lower(description)), Tuple(lower(keyword))))

\* _analyze_trends(title, description, keyword): no step of it raises
\* (_extract_key_phrases catches its own failures)
_analyze_trends(title, description, keyword) ==
    [keyword_density   |-> _calculate_keyword_density(JoinSpace(title, description), keyword),
     content_structure |-> _analyze_content_structure(title, description)]

\* After a fit on the single text every feature of the text has a positive
\* weight and cosine similarity 1.0 to the target column (a feature the text
\* lacks has 0.0)
Similarities(names, terms) ==
    Tuple([j \in DOMAIN names |-> IF names[j] \in terms THEN 1 ELSE 0])

\* [feature_names[i] for i in top_indices]
NamesAt(names, top_indices) == Tuple([r \in DOMAIN top_indices |-> names[top_indices[r]]])

\* related_keywords[:5]
FirstRelated(related_keywords) ==
    SubSeq(related_keywords, 1, Min(related_limit, Len(related_keywords)))

\* lines 263-269: argsort()[-6:][::-1] lists the six highest similarities,
\* equal ones in descending index order; the target is removed, five are kept
RelatedTo(names, terms, target) ==
    FirstRelated(SelectSeq(NamesAt(names, TopIndices(Similarities(names, terms), related_window)),
                           LAMBDA kw : kw # target))

\* lines 251-269 after a fit that left vocabulary fitted
RelatedFitted(fitted, terms, target) ==
    [raised     |-> FALSE,
     value      |-> IF target \notin fitted THEN <<>>
                    ELSE RelatedTo(feature_names(fitted), terms, target),
     vocabulary |-> fitted]

\* _find_related_keywords(text, target_keyword) with the vectorizer holding
\* vocab.  The fit (line 248) is outside the try block: an empty vocabulary
\* raises ValueError to the caller and leaves the vectorizer as it was.
_find_related_keywords(vocab, text, target_keyword) ==
    IF FitRaises(<<text>>)
    THEN [raised |-> TRUE, value |-> <<>>, vocabulary |-> vocab]
    ELSE RelatedFitted(fit_vocabulary(vocab, <<text>>), Range(analyzer(text)),
                       lower(target_keyword))

\* word_freq.get(target_keyword.lower(), 0): the number of word tokens of the
\* text that equal the lower-cased keyword
word_freq(text, target_keyword) ==
    Count(WordRuns(lower(text), <<>>), Tuple(lower(target_keyword)))

\* lines 158-162
keyword_metrics(title, description, target_keyword) ==
    [frequency |-> word_freq(JoinSpace(title, description), target_keyword),
     density   |-> _calculate_keyword_density(JoinSpace(title, description), target_keyword),
     position  |-> _analyze_keyword_position(title, description, target_keyword)]

\* lines 157-171: the report, or the exception of _find_related_keywords
KeywordReport(metrics, related) ==
    IF related.raised
    THEN related
    ELSE [raised |-> FALSE,
          value  |-> [keyword_metrics  |-> metrics,
                      related_keywords |-> related.value],
          vocabulary |-> related.vocabulary]

\* _analyze_keywords(title, description, target_keyword)
_analyze_keywords(vocab, title, description, target_keyword) ==
    KeywordReport(keyword_metrics(title, description, target_keyword),
                  _find_related_keywords(vocab, JoinSpace(title, description), target_keyword))

---------------------------------------------------------------------------
(* Inputs of the analyzer.                                                 *)

MaxComments == 4

EmptyStr == <<>>

TitleSamples == { EmptyStr, <<"t","h","e">>, <<"g","o","o","d"," ","C","h","e","s","s">> }
DescriptionSamples == { <<" ">>, <<"b","a","d">> }
CommentTexts == { <<"g","o","o","d">>, <<"b","a","d">> }
KeywordSamples == { <<"c","h","e","s","s">>, <<"B","a","d">> }

SeqsUpTo(S, n) == UNION { [1..k -> S] : k \in 0..n }

\* comment lists holding nothing but empty and whitespace-only comments
BlankCommentLists == { <<EmptyStr>>, <<(<<" ">>), EmptyStr, <<" ", " ">> >> }

\* comments as the extractor builds them
CommentRecords == { [author |-> <<"u">>, text |-> t] : t \in CommentTexts }

\* comment lists; in some the last comment has no text
CommentListSamples ==
    SeqsUpTo(CommentRecords, MaxComments)
        \cup { Append(l, [author |-> <<"u">>]) : l \in SeqsUpTo(CommentRecords, MaxComments - 1) }

Field(present, key, val) == IF present THEN (key :> val) ELSE <<>>

\* video metadata records in which any of title, description and comments
\* may be absent; {} is the record of a keyword-only analysis
VideoDataSamples ==
    { Field(t.present, "title", t.val) @@ Field(d.present, "description", d.val)
          @@ Field(c.present, "comments", c.val) :
        t \in { [present |-> TRUE, val |-> x] : x \in TitleSamples } \cup { [present |-> FALSE, val |-> EmptyStr] },
        d \in { [present |-> TRUE, val |-> x] : x \in DescriptionSamples } \cup { [present |-> FALSE, val |-> EmptyStr] },
        c \in { [present |-> TRUE, val |-> x] : x \in CommentListSamples }
                  \cup { [present |-> FALSE, val |-> <<>>] } }

---------------------------------------------------------------------------
(* ContentAnalyzer: one object, one request at a time.                     *)

Engines == {"sentiment_analysis", "trend_analysis", "content_clusters", "keyword_analysis"}

NoOutcome == [status |-> "none"]
NoArgs == [none |-> TRUE]

\* video_data.get(key, default)
Get(d, key, default) == IF key \in DOMAIN d THEN d[key] ELSE default

\* __init__: a vectorizer that was never fitted, no request in hand
Init ==
    /\ vocabulary = {}
    /\ op = "idle"
    /\ args = NoArgs
    /\ outcome = NoOutcome
    /\ failed = {}
    /\ previous = {}

Raised(exc) == [status |-> "raised", exc |-> exc]
Returned(value) == [status |-> "returned", value |-> value]

\* some comment record has no "text"
SomeCommentWithoutText(video_data) ==
    \E i \in DOMAIN Get(video_data, "comments", <<>>) : "text" \notin DOMAIN video_data.comments[i]

\* [comment["text"] for comment in records]
TextsOf(records) == Tuple([i \in DOMAIN records |-> records[i].text])

\* the engine that failed, if the clustering returned its error object
ClusterFailed(clustering) == IF "error" \in DOMAIN clustering.value THEN {"content_clusters"} ELSE {}

\* lines 61-69: keyword analysis has run; its exception ends the request,
\* otherwise the report is assembled
Assemble(sentiment, trends, clustering, keywords) ==
    /\ vocabulary' = keywords.vocabulary
    /\ IF keywords.raised
       THEN /\ outcome' = Raised("ValueError")
            /\ failed' = ClusterFailed(clustering) \cup {"keyword_analysis"}
       ELSE /\ outcome' = Returned([sentiment_analysis |-> sentiment,
                                    trend_analysis     |-> trends,
                                    content_clusters   |-> clustering.value,
                                    keyword_analysis   |-> keywords.value])
            /\ failed' = ClusterFailed(clustering)

\* lines 58-61: the four engines in order, none of the calls guarded
RunEngines(title, description, comments, keyword) ==
    \E clustering \in _cluster_content(vocabulary, title, description, comments) :
        IF clustering.raised
        THEN /\ outcome' = Raised("Exception")
             /\ failed' = {"content_clusters"}
             /\ vocabulary' = clustering.vocabulary
        ELSE \E keywords \in {_analyze_keywords(clustering.vocabulary, title, description, keyword)} :
                Assemble(_analyze_sentiment(title, description, comments),
                         _analyze_trends(title, description, keyword),
                         clustering, keywords)

\* analyze_content(video_data, keyword), content_analyzer.py:51-69
AnalyzeContent(video_data, keyword) ==
    /\ op = "idle"
    /\ op' = "analyze_content"
    /\ args' = [video_data |-> video_data, keyword |-> keyword]
    /\ previous' = vocabulary
    /\ IF SomeCommentWithoutText(video_data)
       THEN \* comment["text"] raises KeyError before any engine runs
            /\ outcome' = Raised("KeyError")
            /\ failed' = {}
            /\ UNCHANGED vocabulary
       ELSE RunEngines(Get(video_data, "title", EmptyStr),
                       Get(video_data, "description", EmptyStr),
                       TextsOf(Get(video_data, "comments", <<>>)),
                       keyword)

\* a direct call of _cluster_content, content_analyzer.py:115-143
ClusterContent(title, description, comments) ==
    /\ op = "idle"
    /\ op' = "_cluster_content"
    /\ args' = [title |-> title, description |-> description, comments |-> comments]
    /\ previous' = vocabulary
    /\ \E clustering \in _cluster_content(vocabulary, title, description, comments) :
          /\ vocabulary' = clustering.vocabulary
          /\ outcome' = IF clustering.raised THEN Raised("Exception") ELSE Returned(clustering.value)
          /\ failed' = IF clustering.raised \/ "error" \in DOMAIN clustering.value
                       THEN {"content_clusters"} ELSE {}

\* a direct call of _analyze_keywords, content_analyzer.py:145-171
AnalyzeKeywords(title, description, target_keyword) ==
    /\ op = "idle"
    /\ op' = "_analyze_keywords"
    /\ args' = [title |-> title, description |-> description, keyword |-> target_keyword]
    /\ previous' = vocabulary
    /\ \E keywords \in {_analyze_keywords(vocabulary, title, description, target_keyword)} :
          /\ vocabulary' = keywords.vocabulary
          /\ outcome' = IF keywords.raised THEN Raised("ValueError") ELSE Returned(keywords.value)
          /\ failed' = IF keywords.raised THEN {"keyword_analysis"} ELSE {}

\* the caller takes the result (or the exception); the analyzer object and
\* its vectorizer stay for the next request
Return ==
    /\ op # "idle"
    /\ op' = "idle"
    /\ args' = NoArgs
    /\ outcome' = NoOutcome
    /\ failed' = {}
    /\ previous' = {}
    /\ UNCHANGED vocabulary

Next ==
    \/ \E video_data \in VideoDataSamples, keyword \in KeywordSamples :
          AnalyzeContent(video_data, keyword)
    \/ \E title \in TitleSamples, description \in DescriptionSamples,
          comments \in SeqsUpTo(CommentTexts, MaxComments) \cup BlankCommentLists :
          ClusterContent(title, description, comments)
    \/ \E title \in TitleSamples, description \in DescriptionSamples, keyword \in KeywordSamples :
          AnalyzeKeywords(title, description, keyword)
    \/ Return

Spec == Init /\ [][Next]_vars

---------------------------------------------------------------------------
(* The request in hand, read back from the state.                          *)

Finished == outcome.status \in {"returned", "raised"}
HasReturned == outcome.status = "returned"

RequestTitle ==
    IF op = "analyze_content" THEN Get(args.video_data, "title", EmptyStr) ELSE args.title
RequestDescription ==
    IF op = "analyze_content" THEN Get(args.video_data, "description", EmptyStr) ELSE args.description

RequestComments ==
    IF op = "analyze_content" THEN TextsOf(Get(args.video_data, "comments", <<>>)) ELSE args.comments

\* the corpus _cluster_content clusters: the non-blank documents
RequestCorpus == NonBlank(<<RequestTitle, RequestDescription>> \o RequestComments)

\* the text _analyze_keywords works on
RequestText == JoinSpace(RequestTitle, RequestDescription)

ClusterResult == IF op = "analyze_content" THEN outcome.value.content_clusters ELSE outcome.value
KeywordResult == IF op = "analyze_content" THEN outcome.value.keyword_analysis ELSE outcome.value

KeywordsOf(clustering) ==
    UNION { Range(clustering.cluster_keywords[c]) : c \in DOMAIN clustering.cluster_keywords }

---------------------------------------------------------------------------
(* Claims about the clustering engine and analyze_content.                 *)

\* C1: for every corpus of n >= 1 non-blank documents _cluster_content returns
\* exactly n cluster assignments and exactly k = min(5, n) cluster keyword
\* lists, and every assignment is in [0, k).
C1_ClusterShape ==
    (op = "_cluster_content" /\ Len(RequestCorpus) >= 1) =>
        LET n == Len(RequestCorpus)
            k == Min(5, n)
        IN  /\ HasReturned
            /\ Len(outcome.value.clusters) = n
            /\ Len(outcome.value.cluster_keywords) = k
            /\ \A i \in DOMAIN outcome.value.clusters : outcome.value.clusters[i] \in 0..(k - 1)

\* C2: within one analyze_content request, a failure in any one of the four
\* engines does not prevent the others from producing their sections of the
\* report: the request returns a report that holds the section of every engine
\* that did not fail.
C2_EngineFailureIsolated ==
    (op = "analyze_content" /\ failed # {}) =>
        /\ HasReturned
        /\ (Engines \ failed) \subseteq DOMAIN outcome.value

\* C3: analyze_content returns a report without raising for every video
\* metadata record in which some of title, description, comments or a
\* comment's text is absent, the empty record {} included.
SomeFieldAbsent(video_data) ==
    \/ {"title", "description", "comments"} \ DOMAIN video_data # {}
    \/ SomeCommentWithoutText(video_data)

C3_AbsentFieldsDegrade ==
    (op = "analyze_content" /\ SomeFieldAbsent(args.video_data)) => HasReturned

\* C4: a failure raised during vectorization or k-means inside _cluster_content
\* never reaches the caller: the call returns, and when the fit of the corpus
\* raises, what it returns carries an error description and empty clusters and
\* cluster_keywords; analyze_content never ends with the clustering's exception.
C4_ClusterFailureContained ==
    /\ op = "_cluster_content" =>
          /\ HasReturned
          /\ (RequestCorpus # <<>> /\ FitRaises(RequestCorpus)) =>
                /\ "error" \in DOMAIN outcome.value
                /\ outcome.value.clusters = <<>>
                /\ outcome.value.cluster_keywords = <<>>
    /\ (op = "analyze_content" /\ outcome.status = "raised") => outcome.exc # "Exception"

\* a direct call on a corpus of stop words only has returned the error object
C4_Witness ==
    /\ op = "_cluster_content"
    /\ HasReturned
    /\ RequestCorpus # <<>>
    /\ FitRaises(RequestCorpus)
    /\ "error" \in DOMAIN outcome.value

\* C5: whatever vocabulary earlier calls left in the shared vectorizer, the
\* cluster keywords a call returns are terms of that call's corpus and the
\* related keywords it returns are terms of that call's text.
C5_VocabularyIsolation ==
    /\ (op \in {"_cluster_content", "analyze_content"} /\ HasReturned) =>
          KeywordsOf(ClusterResult) \subseteq CorpusTerms(RequestCorpus)
    /\ (op \in {"_analyze_keywords", "analyze_content"} /\ HasReturned) =>
          Range(KeywordResult.related_keywords) \subseteq CorpusTerms(<<RequestText>>)

\* an analyze_content call returned cluster keywords and related keywords while
\* the vectorizer held, from an earlier call, a term its own texts do not have
C5_Witness ==
    /\ op = "analyze_content"
    /\ HasReturned
    /\ KeywordsOf(ClusterResult) # {}
    /\ KeywordResult.related_keywords # <<>>
    /\ previous \ (CorpusTerms(RequestCorpus) \cup CorpusTerms(<<RequestText>>)) # {}

---------------------------------------------------------------------------
(* _analyze_sentiment as a function of its inputs.                         *)

\* comments of all polarities: positive, negative, weakly positive (0.0772),
\* without a lexicon word, empty, and mixed (-0.1531)
SentimentCommentTexts ==
    { <<"g","o","o","d">>, <<"b","a","d">>, <<"w","a","n","t">>,
      <<"c","h","e","s","s">>, EmptyStr, <<"g","o","o","d"," ","b","a","d">> }

\* a video without title and description, and one with both
SentimentContentSamples ==
    { [title |-> EmptyStr, description |-> EmptyStr],
      [title |-> <<"g","o","o","d"," ","C","h","e","s","s">>, description |-> <<"b","a","d">>] }

\* a call of _analyze_sentiment is about to run on some title, description
\* and list of comment texts
InitSentiment ==
    /\ vocabulary = {}
    /\ op = "_analyze_sentiment"
    /\ \E content \in SentimentContentSamples,
          comments \in SeqsUpTo(SentimentCommentTexts, MaxComments) :
          args = [title |-> content.title, description |-> content.description,
                  comments |-> comments]
    /\ outcome = NoOutcome
    /\ failed = {}
    /\ previous = {}

\* _analyze_sentiment(title, description, comments), content_analyzer.py:71-93;
\* no step of it raises
AnalyzeSentiment ==
    /\ op = "_analyze_sentiment"
    /\ outcome = NoOutcome
    /\ outcome' = Returned(_analyze_sentiment(args.title, args.description, args.comments))
    /\ UNCHANGED <<vocabulary, op, args, failed, previous>>

NextSentiment == AnalyzeSentiment

SpecSentiment == InitSentiment /\ [][NextSentiment]_vars

\* the compound score of each comment of the call
RequestCompounds ==
    Tuple([i \in DOMAIN args.comments |-> polarity_scores(args.comments[i]).compound])

\* C6: for a video with zero comments _analyze_sentiment returns, and each of
\* compound, pos, neu and neg of the comment_sentiment it returns is a defined
\* number, not not-a-number.
C6_ZeroCommentsDefinedAggregate ==
    (op = "_analyze_sentiment" /\ args.comments = <<>> /\ outcome # NoOutcome) =>
        /\ HasReturned
        /\ \A field \in {"compound", "pos", "neu", "neg"} :
              ~IsNaN(outcome.value.comment_sentiment[field])

\* C7: for every list of comments the counts positive (compound > 0.2),
\* neutral (-0.2 <= compound <= 0.2) and negative (compound < -0.2) of
\* sentiment_distribution sum to the number of comments, each comment being
\* counted in exactly one bucket.
C7_BucketsPartitionComments ==
    (op = "_analyze_sentiment" /\ HasReturned) =>
        /\ Len(RequestCompounds) = Len(args.comments)
        /\ outcome.value.sentiment_distribution.positive
               + outcome.value.sentiment_distribution.neutral
               + outcome.value.sentiment_distribution.negative = Len(args.comments)
        /\ outcome.value.sentiment_distribution.positive =
               Cardinality({i \in DOMAIN RequestCompounds : RequestCompounds[i] > 2000})
        /\ outcome.value.sentiment_distribution.neutral =
               Cardinality({i \in DOMAIN RequestCompounds :
                               -2000 <= RequestCompounds[i] /\ RequestCompounds[i] <= 2000})
        /\ outcome.value.sentiment_distribution.negative =
               Cardinality({i \in DOMAIN RequestCompounds : RequestCompounds[i] < -2000})

\* a list with a comment in every bucket, one of them weakly positive, was
\* counted
C7_Witness ==
    /\ op = "_analyze_sentiment"
    /\ HasReturned
    /\ outcome.value.sentiment_distribution.positive >= 1
    /\ outcome.value.sentiment_distribution.neutral >= 1
    /\ outcome.value.sentiment_distribution.negative >= 1
    /\ \E i \in DOMAIN RequestCompounds : RequestCompounds[i] \in 1..2000

---------------------------------------------------------------------------
(* SEOGenerator._calculate_seo_score, seo_generator.py:175-227.            *)

max_score == 100

\* sub in s, for strings
Contains(s, sub) ==
    \E i \in 1..(Len(s) - Len(sub) + 1) : SubSeq(s, i, i + Len(sub) - 1) = sub

\* the three symbols the description is searched for, each one character
AlarmClock == "alarm_clock"
Magnifier == "magnifying_glass"
Books == "books"
Subscribe == <<"S","u","b","s","c","r","i","b","e">>

\* title_score with the length test excluding its lower end (30 < len <= 60)
title_score_above_thirty(title) ==
    (IF Len(title) > 30 /\ Len(title) <= 60 THEN 15 ELSE 0)
      + (IF Contains(title, <<"#">>) THEN 5 ELSE 0)
      + (IF Contains(title, <<"?">>) THEN 5 ELSE 0)
      + (IF \E num \in DigitSet : Contains(title, <<num>>) THEN 5 ELSE 0)

\* lines 187-195
title_score(title) ==
    (IF Len(title) >= 30 /\ Len(title) <= 60 THEN 15 ELSE 0)
      + (IF Contains(title, <<"#">>) THEN 5 ELSE 0)
      + (IF Contains(title, <<"?">>) THEN 5 ELSE 0)
      + (IF \E num \in DigitSet : Contains(title, <<num>>) THEN 5 ELSE 0)

\* desc_score with the call to action looked for in any letter case
desc_score_any_case(description) ==
    (IF Len(description) >= 200 THEN 10 ELSE 0)
      + (IF Contains(description, <<AlarmClock>>) THEN 5 ELSE 0)
      + (IF Contains(description, <<Magnifier>>) THEN 5 ELSE 0)
      + (IF Contains(description, <<Books>>) THEN 5 ELSE 0)
      + (IF Contains(Tuple(lower(description)), Tuple(lower(Subscribe))) THEN 5 ELSE 0)

\* lines 199-209
desc_score(description) ==
    (IF Len(description) >= 200 THEN 10 ELSE 0)
      + (IF Contains(description, <<AlarmClock>>) THEN 5 ELSE 0)
      + (IF Contains(description, <<Magnifier>>) THEN 5 ELSE 0)
      + (IF Contains(description, <<Books>>) THEN 5 ELSE 0)
      + (IF Contains(description, Subscribe) THEN 5 ELSE 0)

\* lines 213 and 217: two points for an entry, at most twenty;
\* list_score_uncapped is list_score without the min
list_score_uncapped(entries) == Len(entries) * 2
list_score(entries) == Min(Len(entries) * 2, 20)

_calculate_seo_score(title, description, tags, hashtags) ==
    [total_score       |-> title_score(title) + desc_score(description)
                             + list_score(tags) + list_score(hashtags),
     max_score         |-> max_score,
     title_score       |-> title_score(title),
     description_score |-> desc_score(description),
     tags_score        |-> list_score(tags),
     hashtags_score    |-> list_score(hashtags)]

MaxTitleLen == 61
MaxDescLen == 201
MaxTags == 11

\* s followed by as many "a" as bring it to length n
PadTo(s, n) == s \o Tuple([i \in 1..(n - Len(s)) |-> "a"])

UltimateGuide ==
    <<"T", "h", "e", " ", "U", "l", "t", "i", "m", "a", "t", "e", " ",
      "G", "u", "i", "d", "e">>

\* titles short, at both ends of the rewarded range and too long, with any
\* of "#", "?" and a digit, and one short title of plain words
SeoTitleSamples ==
    { PadTo(marks, n) :
        marks \in { <<>>, <<"#">>, <<"?">>, <<"7">>, <<"?", "7">>, <<"#", "?", "7">> },
        n \in {3, 29, 30, 60, MaxTitleLen} }
      \cup {UltimateGuide}

\* descriptions below, at and above the rewarded length, with any of the
\* three symbols and with the call to action, missing or in lower case, and
\* the empty description
SeoDescriptionSamples ==
    { PadTo(symbols \o word, n) :
        symbols \in { <<>>, <<AlarmClock>>, <<Magnifier>>, <<Books>>,
                      <<AlarmClock, Books>>, <<AlarmClock, Magnifier, Books>> },
        word \in { <<>>, Subscribe, lower(Subscribe) },
        n \in {12, 199, 200, MaxDescLen} }
      \cup {EmptyStr}

SeoListSamples == { [i \in 1..n |-> <<"t">>] : n \in {0, 9, 10, MaxTags} }

InitSeo ==
    /\ vocabulary = {}
    /\ op = "_calculate_seo_score"
    /\ \E title \in SeoTitleSamples, description \in SeoDescriptionSamples,
          tags \in SeoListSamples, hashtags \in SeoListSamples :
          args = [title |-> title, description |-> description,
                  tags |-> tags, hashtags |-> hashtags]
    /\ outcome = NoOutcome
    /\ failed = {}
    /\ previous = {}

CalculateSeoScore ==
    /\ op = "_calculate_seo_score"
    /\ outcome = NoOutcome
    /\ outcome' = Returned(_calculate_seo_score(args.title, args.description,
                                                args.tags, args.hashtags))
    /\ UNCHANGED <<vocabulary, op, args, failed, previous>>

NextSeo == CalculateSeoScore

SpecSeo == InitSeo /\ [][NextSeo]_vars

\* C8: for every title, description, tag list and hashtag list
\* _calculate_seo_score returns total_score = title_score + description_score
\* + tags_score + hashtags_score, with title_score <= 30, description_score
\* <= 30, tags_score <= 20, hashtags_score <= 20 and total_score in [0, 100].
C8_SeoScoreDecomposition ==
    (op = "_calculate_seo_score" /\ outcome # NoOutcome) =>
        /\ HasReturned
        /\ LET r == outcome.value
           IN  /\ r.total_score = r.title_score + r.description_score
                                     + r.tags_score + r.hashtags_score
               /\ r.title_score <= 30
               /\ r.description_score <= 30
               /\ r.tags_score <= 20
               /\ r.hashtags_score <= 20
               /\ r.total_score >= 0
               /\ r.total_score <= 100

\* content that earns every point, with more than ten tags and more than ten
\* hashtags, was scored 100
C8_Witness ==
    /\ op = "_calculate_seo_score"
    /\ HasReturned
    /\ Len(args.tags) > 10
    /\ Len(args.hashtags) > 10
    /\ outcome.value.title_score = 30
    /\ outcome.value.description_score = 30
    /\ outcome.value.total_score = 100

---------------------------------------------------------------------------
(* KeywordResearcher._calculate_competition_metrics and                    *)
(* _get_competition_level, keyword_researcher.py:162-191 and 246-257.      *)
(* A score is a whole number of half millionths of a point, which holds    *)
(* every quotient by 1000000, by 100 and by 2 exactly.                     *)

\* half millionths in one point
Point == 2000000

\* maxResults of the search request: total_videos is the length of one page
max_results == 50

\* lines 169-174; youtube_score_per_video is youtube_score without the
\* factor total_videos
youtube_score_per_video(youtube_data) ==
    IF youtube_data.total_videos > 0
    THEN Min(youtube_data.avg_views * 2, 100 * Point)
    ELSE 0

youtube_score(youtube_data) ==
    IF youtube_data.total_videos > 0
    THEN Min(youtube_data.avg_views * youtube_data.total_videos * 2, 100 * Point)
    ELSE 0

\* lines 177-179; web_score_uncapped is web_score without the min
web_score_uncapped(web_data) ==
    IF web_data.total_results > 0
    THEN web_data.total_results * (Point \div 100)
    ELSE 0

web_score(web_data) ==
    IF web_data.total_results > 0
    THEN Min(web_data.total_results * (Point \div 100), 100 * Point)
    ELSE 0

\* overall_score without the division by two
overall_score_sum(youtube, web) == youtube + web

\* line 182; both scores are even numbers of half millionths
overall_score(youtube, web) == (youtube + web) \div 2

\* _get_competition_level with "Low" for every score below 40
_get_competition_level_without_floor(score) ==
    IF score >= 80 * Point THEN "Very High"
    ELSE IF score >= 60 * Point THEN "High"
    ELSE IF score >= 40 * Point THEN "Medium"
    ELSE "Low"

\* _get_competition_level with > in place of >=
_get_competition_level_exclusive(score) ==
    IF score > 80 * Point THEN "Very High"
    ELSE IF score > 60 * Point THEN "High"
    ELSE IF score > 40 * Point THEN "Medium"
    ELSE IF score > 20 * Point THEN "Low"
    ELSE "Very Low"

_get_competition_level(score) ==
    IF score >= 80 * Point THEN "Very High"
    ELSE IF score >= 60 * Point THEN "High"
    ELSE IF score >= 40 * Point THEN "Medium"
    ELSE IF score >= 20 * Point THEN "Low"
    ELSE "Very Low"

_calculate_competition_metrics(youtube_data, web_data) ==
    LET youtube == youtube_score(youtube_data)
        web     == web_score(web_data)
        overall == overall_score(youtube, web)
    IN  [youtube_competition |-> _get_competition_level(youtube),
         web_competition     |-> _get_competition_level(web),
         overall_competition |-> _get_competition_level(overall),
         youtube_score       |-> youtube,
         web_score           |-> web,
         overall_score       |-> overall]

MaxAvgViews == 20000000
MaxTotalResults == 100000

\* the platform record _get_youtube_data builds: the length of one result
\* page and the whole mean of view counts
YoutubeDataSamples ==
    { [total_videos |-> t, avg_views |-> v] :
        t \in 0..max_results,
        v \in {0, 1, 399999, 400000, 2000000, 2000001, MaxAvgViews} }

\* the web record _get_web_data builds: a count of results
WebDataSamples ==
    { [total_results |-> r] : r \in {0, 1, 1999, 2000, 9999, 10000, 10001, MaxTotalResults} }

InitCompetition ==
    /\ vocabulary = {}
    /\ op = "_calculate_competition_metrics"
    /\ \E youtube_data \in YoutubeDataSamples, web_data \in WebDataSamples :
          args = [youtube_data |-> youtube_data, web_data |-> web_data]
    /\ outcome = NoOutcome
    /\ failed = {}
    /\ previous = {}

CalculateCompetitionMetrics ==
    /\ op = "_calculate_competition_metrics"
    /\ outcome = NoOutcome
    /\ outcome' = Returned(_calculate_competition_metrics(args.youtube_data, args.web_data))
    /\ UNCHANGED <<vocabulary, op, args, failed, previous>>

NextCompetition == CalculateCompetitionMetrics

SpecCompetition == InitCompetition /\ [][NextCompetition]_vars

\* C9: for every platform record and web record with non-negative counts
\* youtube_score = min(avg_views * total_videos / 1,000,000, 100), web_score =
\* min(total_results / 100, 100) and overall_score = (youtube_score +
\* web_score) / 2.  (min(a / d, 100) is a / d when a <= 100 * d and 100
\* otherwise; a / d points are a * (Point / d) half millionths.)
C9_CompetitionFormulas ==
    (op = "_calculate_competition_metrics" /\ outcome # NoOutcome) =>
        /\ HasReturned
        /\ LET product == args.youtube_data.avg_views * args.youtube_data.total_videos
               results == args.web_data.total_results
               r       == outcome.value
           IN  /\ IF product <= 100 * 1000000
                  THEN r.youtube_score = product * (Point \div 1000000)
                  ELSE r.youtube_score = 100 * Point
               /\ IF results <= 100 * 100
                  THEN r.web_score = results * (Point \div 100)
                  ELSE r.web_score = 100 * Point
               /\ 2 * r.overall_score = r.youtube_score + r.web_score

\* a platform record below the cap and a web record above it were scored
C9_Witness ==
    /\ op = "_calculate_competition_metrics"
    /\ HasReturned
    /\ args.youtube_data.total_videos > 1
    /\ outcome.value.youtube_score > 0
    /\ outcome.value.youtube_score < 100 * Point
    /\ args.web_data.total_results > 10000
    /\ outcome.value.overall_score > 50 * Point

\* C10: for all inputs total_videos, avg_views and total_results, however
\* large, each of youtube_score, web_score and overall_score lies in [0, 100].
C10_ScoresBounded ==
    (op = "_calculate_competition_metrics" /\ outcome # NoOutcome) =>
        /\ HasReturned
        /\ \A score \in {"youtube_score", "web_score", "overall_score"} :
              /\ outcome.value[score] >= 0
              /\ outcome.value[score] <= 100 * Point

\* records whose raw quotients are ten times the cap were scored 100
C10_Witness ==
    /\ op = "_calculate_competition_metrics"
    /\ HasReturned
    /\ args.youtube_data.avg_views * args.youtube_data.total_videos >= 1000 * 1000000
    /\ args.web_data.total_results >= 1000 * 100
    /\ outcome.value.youtube_score = 100 * Point
    /\ outcome.value.web_score = 100 * Point
    /\ outcome.value.overall_score = 100 * Point

\* C11: when total_videos = 0 and total_results = 0, whatever avg_views is,
\* the call returns, all three scores are 0 and all three levels are
\* "Very Low".
C11_DegenerateInputs ==
    (/\ op = "_calculate_competition_metrics"
     /\ outcome # NoOutcome
     /\ args.youtube_data.total_videos = 0
     /\ args.web_data.total_results = 0) =>
        /\ HasReturned
        /\ outcome.value.youtube_score = 0
        /\ outcome.value.web_score = 0
        /\ outcome.value.overall_score = 0
        /\ outcome.value.youtube_competition = "Very Low"
        /\ outcome.value.web_competition = "Very Low"
        /\ outcome.value.overall_competition = "Very Low"

\* a record with no video but a large mean of views, and no web result, was scored
C11_Witness ==
    /\ op = "_calculate_competition_metrics"
    /\ HasReturned
    /\ args.youtube_data.total_videos = 0
    /\ args.youtube_data.avg_views >= 2000000
    /\ args.web_data.total_results = 0

\* the level the thresholds 20 / 40 / 60 / 80 give a score, and its rank
LevelNames == <<"Very Low", "Low", "Medium", "High", "Very High">>

LevelRank(level) == CHOOSE r \in DOMAIN LevelNames : LevelNames[r] = level

\* the three (score, level) pairs of the result in hand
ScoredLevels ==
    { [score |-> outcome.value.youtube_score, level |-> outcome.value.youtube_competition],
      [score |-> outcome.value.web_score,     level |-> outcome.value.web_competition],
      [score |-> outcome.value.overall_score, level |-> outcome.value.overall_competition] }

\* C12: each of youtube_score, web_score and overall_score is mapped to its
\* level by the same thresholds: below 20 Very Low, from 20 below 40 Low, from
\* 40 below 60 Medium, from 60 below 80 High, from 80 Very High; a higher score
\* never has a lower level.
C12_LevelThresholds ==
    (op = "_calculate_competition_metrics" /\ HasReturned) =>
        /\ \A p \in ScoredLevels :
              /\ (p.score < 20 * Point) <=> (p.level = "Very Low")
              /\ (20 * Point <= p.score /\ p.score < 40 * Point) <=> (p.level = "Low")
              /\ (40 * Point <= p.score /\ p.score < 60 * Point) <=> (p.level = "Medium")
              /\ (60 * Point <= p.score /\ p.score < 80 * Point) <=> (p.level = "High")
              /\ (80 * Point <= p.score) <=> (p.level = "Very High")
        /\ \A p, q \in ScoredLevels :
              p.score <= q.score => LevelRank(p.level) <= LevelRank(q.level)

\* a platform score of exactly 20 got Low, and the web and overall scores got
\* two other levels
C12_Witness ==
    /\ op = "_calculate_competition_metrics"
    /\ HasReturned
    /\ outcome.value.youtube_score = 20 * Point
    /\ outcome.value.youtube_competition = "Low"
    /\ outcome.value.web_competition = "Very High"
    /\ outcome.value.overall_competition = "High"

---------------------------------------------------------------------------
(* The keyword metrics on their own: _calculate_keyword_density,           *)
(* _analyze_keyword_position and _analyze_keywords,                        *)
(* content_analyzer.py:200-204, 233-243 and 145-171.                       *)

\* titles: empty, a stop word, the keyword twice, capitals and punctuation
MetricTitleSamples ==
    { EmptyStr,
      <<"t","h","e">>,
      <<"c","h","e","s","s"," ","c","h","e","s","s"," ","o","p","e","n","i","n","g","s">>,
      <<"C","h","e","s","s"," ","O","p","e","n","i","n","g","s","!">> }

\* descriptions: empty, a second sentence, a word with a full stop inside and
\* a longer word that begins with the keyword
MetricDescriptionSamples ==
    { EmptyStr,
      <<"c","h","e","s","s"," ","t","a","c","t","i","c","s">>,
      <<"m","y"," ","c",".","e","s","s"," ","c","h","e","s","s","b","o","a","r","d">> }

\* keywords: one word, two words with capitals, one with a pattern
\* metacharacter, the beginning of a word, a word of the description
MetricKeywordSamples ==
    { <<"c","h","e","s","s">>,
      <<"C","h","e","s","s"," ","O","p","e","n","i","n","g","s">>,
      <<"c",".","e","s","s">>,
      <<"c","h","e","s">>,
      <<"t","a","c","t","i","c","s">> }

\* a direct call of _calculate_keyword_density, content_analyzer.py:200-204
CalculateKeywordDensity(text, keyword) ==
    /\ op = "idle"
    /\ op' = "_calculate_keyword_density"
    /\ args' = [text |-> text, keyword |-> keyword]
    /\ previous' = vocabulary
    /\ outcome' = Returned(_calculate_keyword_density(text, keyword))
    /\ failed' = {}
    /\ UNCHANGED vocabulary

\* a direct call of _analyze_keyword_position, content_analyzer.py:233-243
AnalyzeKeywordPosition(title, description, keyword) ==
    /\ op = "idle"
    /\ op' = "_analyze_keyword_position"
    /\ args' = [title |-> title, description |-> description, keyword |-> keyword]
    /\ previous' = vocabulary
    /\ outcome' = Returned(_analyze_keyword_position(title, description, keyword))
    /\ failed' = {}
    /\ UNCHANGED vocabulary

NextKeywords ==
    \/ \E title \in MetricTitleSamples, description \in MetricDescriptionSamples,
          keyword \in MetricKeywordSamples :
          \/ CalculateKeywordDensity(JoinSpace(title, description), keyword)
          \/ AnalyzeKeywordPosition(title, description, keyword)
          \/ AnalyzeKeywords(title, description, keyword)
    \/ \E title \in MetricTitleSamples, description \in MetricDescriptionSamples :
          \* the keyword of a request with neither a keyword nor a video title
          AnalyzeKeywords(title, description, EmptyStr)
    \/ Return

SpecKeywords == Init /\ [][NextKeywords]_vars

\* the number of word tokens of s: the positions where a run of word
\* characters begins
TokenStarts(s) ==
    {i \in DOMAIN s : IsWordChar(s[i]) /\ (i = 1 \/ ~IsWordChar(s[i - 1]))}

\* the positions where sub occurs in s
Occurrences(s, sub) ==
    {i \in 1..(Len(s) - Len(sub) + 1) : SubSeq(s, i, i + Len(sub) - 1) = sub}

\* the positions where sub occurs in s as whole words: no word character
\* before it and none after it
WholeWordOccurrences(s, sub) ==
    {i \in Occurrences(s, sub) :
        /\ (i = 1 \/ ~IsWordChar(s[i - 1]))
        /\ (i + Len(sub) > Len(s) \/ ~IsWordChar(s[i + Len(sub)]))}

C14_KeywordFrequency ==
    (op = "_analyze_keywords" /\ HasReturned) =>
        outcome.value.keyword_metrics.frequency =
            Cardinality(WholeWordOccurrences(Tuple(lower(RequestText)),
                                             Tuple(lower(args.keyword))))

\* C15: for every text and target keyword, _find_related_keywords returns the
\* empty list, without raising, whenever the target keyword is not a term of
\* the vocabulary built from the text.
C15_AbsentKeywordGivesEmptyList ==
    (/\ op = "_analyze_keywords"
     /\ Finished
     /\ Tuple(lower(args.keyword)) \notin CorpusTerms(<<RequestText>>)) =>
        /\ HasReturned
        /\ outcome.value.related_keywords = <<>>

\* C16: _analyze_keyword_position reports, for the title and for the
\* description separately, in_X = true with X_position the offset of the first
\* case-insensitive occurrence of the keyword when it occurs, and in_X = false
\* with X_position = None when it does not (so in_X is true exactly when
\* X_position is not None).
C16_KeywordPosition ==
    (op = "_analyze_keyword_position" /\ Finished) =>
        /\ HasReturned
        /\ IF Occurrences(Tuple(lower(args.title)), Tuple(lower(args.keyword))) = {}
           THEN /\ outcome.value.in_title = FALSE
                /\ outcome.value.title_position = None
           ELSE /\ outcome.value.in_title = TRUE
                /\ outcome.value.title_position =
                      SetMin(Occurrences(Tuple(lower(args.title)), Tuple(lower(args.keyword)))) - 1
        /\ IF Occurrences(Tuple(lower(args.description)), Tuple(lower(args.keyword))) = {}
           THEN /\ outcome.value.in_description = FALSE
                /\ outcome.value.description_position = None
           ELSE /\ outcome.value.in_description = TRUE
                /\ outcome.value.description_position =
                      SetMin(Occurrences(Tuple(lower(args.description)), Tuple(lower(args.keyword)))) - 1

\* a keyword that occurs twice in the title, the first time at its beginning,
\* and not in the description
C16_Witness ==
    /\ op = "_analyze_keyword_position"
    /\ HasReturned
    /\ Cardinality(Occurrences(Tuple(lower(args.title)), Tuple(lower(args.keyword)))) > 1
    /\ outcome.value.in_title
    /\ outcome.value.title_position = 0
    /\ ~outcome.value.in_description
    /\ outcome.value.description_position = None

---------------------------------------------------------------------------
(* The order of the keywords of a cluster.                                 *)

\* the feature names and the TF-IDF matrix of the corpus of the request
RequestNames == feature_names(CorpusTerms(RequestCorpus))

RequestMatrix == tfidf_matrix(RequestCorpus, RequestNames)

\* the feature index of a term
IndexOf(names, term) == CHOOSE j \in DOMAIN names : names[j] = term

\* the summed weight of feature j over the rows labelled c; within one cluster
\* the mean weights compare as these sums do
ClusterWeight(X, clusters, c, j) ==
    SumSeq([i \in DOMAIN X |-> IF clusters[i] = c THEN X[i][j] ELSE 0])

\* feature a is listed before feature b: a higher mean weight, or the same
\* mean weight and the lower vocabulary index
ListedBefore(X, clusters, c, a, b) ==
    \/ ClusterWeight(X, clusters, c, a) > ClusterWeight(X, clusters, c, b)
    \/ /\ ClusterWeight(X, clusters, c, a) = ClusterWeight(X, clusters, c, b)
       /\ a < b

\* the keyword list kws of cluster c is in that order and no unlisted feature
\* belongs before a listed one
TopByMeanWeight(X, clusters, names, c, kws) ==
    /\ Len(kws) <= 5
    /\ Len(kws) = Min(5, Len(names))
    /\ \A r \in DOMAIN kws : kws[r] \in Range(names)
    /\ \A r \in 1..(Len(kws) - 1) :
          ListedBefore(X, clusters, c, IndexOf(names, kws[r]), IndexOf(names, kws[r + 1]))
    /\ \A r \in DOMAIN kws : \A j \in DOMAIN names :
          names[j] \notin Range(kws) => ListedBefore(X, clusters, c, IndexOf(names, kws[r]), j)

\* C17: for each cluster _get_cluster_keywords returns at most 5 terms: those
\* with the highest mean TF-IDF weight over the cluster's documents, in
\* descending order of that mean weight, terms of equal mean weight in
\* vocabulary index order.
C17_ClusterKeywordOrder ==
    (op = "_cluster_content" /\ HasReturned /\ "error" \notin DOMAIN outcome.value) =>
        \A c \in DOMAIN outcome.value.cluster_keywords :
            TopByMeanWeight(RequestMatrix, outcome.value.clusters, RequestNames,
                            c - 1, outcome.value.cluster_keywords[c])

-----------------------------------------------------------------------------
\* Title and description sub-scores, under SpecSeo

Bonus(earned, points) == IF earned THEN points ELSE 0

HasChar(s, chars) == \E i \in 1..Len(s) : s[i] \in chars

HasSubscribe(s) ==
    \E i \in 1..(Len(s) - Len(Subscribe) + 1) :
        \A k \in 1..Len(Subscribe) : s[i + k - 1] = Subscribe[k]

\* C18: the title sub-score is exactly 15 when the title has 30 to 60
\* characters, plus 5 when it holds "?", plus 5 when it holds a digit, plus 5
\* when it holds "#"; a title under 30 characters with none of these marks
\* scores 0, and the call returns also when the description, the tags and the
\* hashtags are empty.
C18_TitleSubScore ==
    (op = "_calculate_seo_score" /\ outcome # NoOutcome) =>
        /\ HasReturned
        /\ outcome.value.title_score =
              Bonus(Len(args.title) \in 30..60, 15)
                + Bonus(HasChar(args.title, {"?"}), 5)
                + Bonus(HasChar(args.title, DigitSet), 5)
                + Bonus(HasChar(args.title, {"#"}), 5)
        /\ (Len(args.title) < 30 /\ ~HasChar(args.title, {"?", "#"} \cup DigitSet))
              => outcome.value.title_score = 0

\* "The Ultimate Guide" with an empty description, no tags and no hashtags
\* was scored, and its title earned nothing
C18_Witness ==
    /\ op = "_calculate_seo_score"
    /\ HasReturned
    /\ args.title = UltimateGuide
    /\ args.description = EmptyStr
    /\ args.tags = <<>>
    /\ args.hashtags = <<>>
    /\ outcome.value.title_score = 0
    /\ outcome.value.total_score = 0

\* C19: the description sub-score is exactly 10 when the description has at
\* least 200 characters, plus 5 for each of the alarm clock, the magnifying
\* glass and the books symbols it holds, plus 5 when it holds "Subscribe"
\* spelled with that capital.
C19_DescriptionSubScore ==
    (op = "_calculate_seo_score" /\ outcome # NoOutcome) =>
        /\ HasReturned
        /\ outcome.value.description_score =
              Bonus(Len(args.description) >= 200, 10)
                + Bonus(HasChar(args.description, {AlarmClock}), 5)
                + Bonus(HasChar(args.description, {Magnifier}), 5)
                + Bonus(HasChar(args.description, {Books}), 5)
                + Bonus(HasSubscribe(args.description), 5)

\* a description of exactly 200 characters with the alarm clock and the books
\* symbols and "subscribe" in lower case was scored 20
C19_Witness ==
    /\ op = "_calculate_seo_score"
    /\ HasReturned
    /\ Len(args.description) = 200
    /\ HasChar(args.description, {AlarmClock})
    /\ HasChar(args.description, {Books})
    /\ ~HasChar(args.description, {Magnifier})
    /\ ~HasSubscribe(args.description)
    /\ HasSubscribe(Tuple([i \in 1..Len(args.description) |->
                              IF i = 3 THEN "S" ELSE args.description[i]]))
    /\ outcome.value.description_score = 20

-----------------------------------------------------------------------------
\* SEOGenerator._generate_optimization_tips (seo_generator.py, lines 229-261)

TitleLongerTip == "Consider making the title longer (30-60 characters)"
TitleShorterTip == "Consider making the title shorter (30-60 characters)"
DescriptionLengthTip == "Add more content to the description (minimum 200 characters)"
TimestampsTip == "Add timestamps to the description"
SubscribeTip == "Add a call-to-action to subscribe"
TagsTip == "Add more tags (aim for 10-15 tags)"
HashtagsTip == "Add more hashtags (aim for 5-10 hashtags)"

\* lines 241-244
title_tips(title) ==
    IF Len(title) < 30 THEN <<TitleLongerTip>>
    ELSE IF Len(title) > 60 THEN <<TitleShorterTip>>
    ELSE <<>>

\* lines 247-252
description_tips(description) ==
    (IF Len(description) < 200 THEN <<DescriptionLengthTip>> ELSE <<>>)
      \o (IF ~Contains(description, <<AlarmClock>>) THEN <<TimestampsTip>> ELSE <<>>)
      \o (IF ~Contains(description, Subscribe) THEN <<SubscribeTip>> ELSE <<>>)

\* lines 255-256
tags_tips(tags) == IF Len(tags) < 10 THEN <<TagsTip>> ELSE <<>>

\* lines 259-260
hashtags_tips(hashtags) == IF Len(hashtags) < 5 THEN <<HashtagsTip>> ELSE <<>>

_generate_optimization_tips(title, description, tags, hashtags) ==
    title_tips(title) \o description_tips(description)
      \o tags_tips(tags) \o hashtags_tips(hashtags)

\* titles on both sides of both ends of the rewarded range, without any mark
\* and with all three
TipTitleSamples ==
    { PadTo(marks, n) :
        marks \in { <<>>, <<"#", "?", "7">> },
        n \in {3, 29, 30, 60, MaxTitleLen} }

\* descriptions on both sides of the rewarded length, with and without the
\* symbols and the call to action
TipDescriptionSamples ==
    { PadTo(symbols \o word, n) :
        symbols \in { <<>>, <<AlarmClock>>, <<Magnifier>>,
                      <<AlarmClock, Magnifier, Books>> },
        word \in { <<>>, Subscribe },
        n \in {199, 200, MaxDescLen} }

TipListSamples == { [i \in 1..n |-> <<"t">>] : n \in {0, 4, 5, 9, 10, MaxTags} }

InitTips ==
    /\ vocabulary = {}
    /\ op = "_generate_optimization_tips"
    /\ \E title \in TipTitleSamples, description \in TipDescriptionSamples,
          tags \in TipListSamples, hashtags \in TipListSamples :
          args = [title |-> title, description |-> description,
                  tags |-> tags, hashtags |-> hashtags]
    /\ outcome = NoOutcome
    /\ failed = {}
    /\ previous = {}

GenerateOptimizationTips ==
    /\ op = "_generate_optimization_tips"
    /\ outcome = NoOutcome
    /\ outcome' = Returned(_generate_optimization_tips(args.title, args.description,
                                                       args.tags, args.hashtags))
    /\ UNCHANGED <<vocabulary, op, args, failed, previous>>

NextTips == GenerateOptimizationTips

SpecTips == InitTips /\ [][NextTips]_vars

\* the conditions _calculate_seo_score checks (lines 187-217), each with
\* whether it is unmet for the given content and the strings of
\* _generate_optimization_tips that speak of it
Threshold(unmet, remedies) == [unmet |-> unmet, remedies |-> remedies]

Thresholds(title, description, tags, hashtags) ==
    { Threshold(~(Len(title) >= 30 /\ Len(title) <= 60),
                {TitleLongerTip, TitleShorterTip}),
      Threshold(~Contains(title, <<"#">>), {}),
      Threshold(~Contains(title, <<"?">>), {}),
      Threshold(~(\E num \in DigitSet : Contains(title, <<num>>)), {}),
      Threshold(~(Len(description) >= 200), {DescriptionLengthTip}),
      Threshold(~Contains(description, <<AlarmClock>>), {TimestampsTip}),
      Threshold(~Contains(description, <<Magnifier>>), {}),
      Threshold(~Contains(description, <<Books>>), {}),
      Threshold(~Contains(description, Subscribe), {SubscribeTip}),
      Threshold(list_score(tags) < 20, {TagsTip}),
      Threshold(list_score(hashtags) < 20, {HashtagsTip}) }

\* C20: for each condition that _calculate_seo_score checks (title length,
\* "?", digit and "#" in the title, description length, each description
\* symbol and "Subscribe", number of tags, number of hashtags),
\* _generate_optimization_tips on the same content returns a string that
\* speaks of that condition if and only if the condition is unmet.
C20_TipsMatchThresholds ==
    (op = "_generate_optimization_tips" /\ outcome # NoOutcome) =>
        /\ HasReturned
        /\ \A threshold \in Thresholds(args.title, args.description,
                                        args.tags, args.hashtags) :
              threshold.unmet <=>
                  \E i \in 1..Len(outcome.value) :
                      outcome.value[i] \in threshold.remedies

-----------------------------------------------------------------------------
\* The empty corpus, under Spec

AllBlank(title, description, comments) ==
    /\ ~strip_nonempty(title)
    /\ ~strip_nonempty(description)
    /\ \A i \in DOMAIN comments : ~strip_nonempty(comments[i])

\* C21: when the title, the description and every comment are empty or
\* whitespace-only, _cluster_content returns exactly the object with an empty
\* clusters list and an empty cluster_keywords list, with no error field,
\* without raising, and the vectorizer keeps the vocabulary it had.
C21_EmptyCorpusShortCircuits ==
    (op = "_cluster_content" /\ AllBlank(args.title, args.description, args.comments)) =>
        /\ HasReturned
        /\ outcome.value = [clusters |-> <<>>, cluster_keywords |-> <<>>]
        /\ failed = {}
        /\ vocabulary = previous

\* a vectorizer fitted by an earlier request was handed a blank title, a
\* blank description and three blank comments
C21_Witness ==
    /\ op = "_cluster_content"
    /\ AllBlank(args.title, args.description, args.comments)
    /\ Len(args.comments) = 3
    /\ previous # {}
    /\ HasReturned

-----------------------------------------------------------------------------
(* The /analyze request handler (main.py, lines 31-121). In this            *)
(* specification op is the step the handler is at (an engine's step bears   *)
(* the name of the report section it fills), args holds the request and the  *)
(* handler's local variables, failed the engines whose call raised, and      *)
(* outcome the response. Strings are taken whole.                            *)

\* requests: with and without a URL, with and without a keyword (None and ""
\* are both false at lines 35 and 68)
RequestSamples ==
    { [url |-> url, keyword |-> keyword, use_gpt |-> use_gpt] :
        url \in {"", "https://youtu.be/dQw4w9WgXcQ"},
        keyword \in {"", "chess"},
        use_gpt \in BOOLEAN }

\* what extract_video_data can hand back (youtube_extractor.py, lines 16-32
\* and 62-66): the video's fields, or the error object of _get_video_info
\* with the three fields added to it
ExtractedSamples ==
    { [title |-> "Chess Openings", description |-> "", tags |-> <<>>,
       comments |-> <<>>, engagement_metrics |-> "engagement_metrics"],
      [title |-> "", description |-> "", tags |-> <<>>,
       comments |-> <<>>, engagement_metrics |-> "engagement_metrics"],
      [error |-> "YouTube API response missing expected fields.", tags |-> <<>>,
       comments |-> <<>>, engagement_metrics |-> "engagement_metrics"] }

\* raise HTTPException(status_code, detail)
HTTPException(status_code, detail) ==
    [status |-> "raised", exc |-> "HTTPException", status_code |-> status_code, detail |-> detail]

\* the handler's locals before any engine ran
Frame(request, video_data) == [request |-> request, video_data |-> video_data]

InitHandler ==
    /\ vocabulary = {}
    /\ op = "validate"
    /\ \E request \in RequestSamples : args = Frame(request, <<>>)
    /\ outcome = NoOutcome
    /\ failed = {}
    /\ previous = {}

\* lines 35-39
Validate ==
    /\ op = "validate"
    /\ IF args.request.url = "" /\ args.request.keyword = ""
       THEN /\ op' = "done"
            /\ outcome' = HTTPException(400, "Please provide either a YouTube URL or a keyword for analysis")
       ELSE /\ op' = "initialize"
            /\ UNCHANGED outcome
    /\ UNCHANGED <<vocabulary, args, failed, previous>>

\* lines 41-49: the four components are constructed outside the inner try
\* blocks; a constructor that raises goes to the outer except clause
InitializeComponents ==
    /\ op = "initialize"
    /\ \E constructed \in BOOLEAN :
          IF constructed
          THEN /\ op' = IF args.request.url # "" THEN "extract_video_data" ELSE "keyword_analysis"
               /\ UNCHANGED outcome
          ELSE /\ op' = "done"
               /\ outcome' = HTTPException(500, "An unexpected error occurred")
    /\ UNCHANGED <<vocabulary, args, failed, previous>>

\* lines 50-65: the extractor returns the video's data, returns its error
\* object, raises ValueError or raises something else
ExtractVideoData ==
    /\ op = "extract_video_data"
    /\ \/ \E video_data \in ExtractedSamples :
             IF "error" \in DOMAIN video_data
             THEN /\ op' = "done"
                  /\ outcome' = HTTPException(500, "Failed to extract video data")
                  /\ UNCHANGED args
             ELSE /\ op' = "keyword_analysis"
                  /\ args' = Frame(args.request, video_data)
                  /\ UNCHANGED outcome
       \/ /\ op' = "done"
          /\ outcome' = HTTPException(400, "Invalid YouTube URL")
          /\ UNCHANGED args
       \/ /\ op' = "done"
          /\ outcome' = HTTPException(500, "Failed to extract video data")
          /\ UNCHANGED args
    /\ UNCHANGED <<vocabulary, failed, previous>>

\* line 68
keyword_of(frame) ==
    IF frame.request.keyword # "" THEN frame.request.keyword
    ELSE Get(frame.video_data, "title", "")

\* what the three engines return when they do not raise
\* (keyword_researcher.py:41-47, seo_generator.py:42-51, content_analyzer.py:64-69)
EngineResult(section, keyword) ==
    CASE section = "keyword_analysis" ->
           [keyword |-> keyword, youtube_metrics |-> "youtube_data", web_metrics |-> "web_data",
            competition_metrics |-> "competition_metrics", suggestions |-> "suggestions"]
      [] section = "seo_suggestions" ->
           [titles |-> "titles", description |-> "description", tags |-> "tags",
            hashtags |-> "hashtags", seo_score |-> "seo_score",
            optimization_tips |-> "optimization_tips"]
      [] section = "sentiment_analysis" ->
           [sentiment_analysis |-> "sentiment", trend_analysis |-> "trends",
            content_clusters |-> "clusters", keyword_analysis |-> "keywords"]

\* the except clauses at lines 71-73, 82-84 and 92-94
ErrorSection(section) ==
    [error |-> CASE section = "keyword_analysis" -> "Keyword research failed"
                 [] section = "seo_suggestions" -> "SEO generation failed"
                 [] section = "sentiment_analysis" -> "Sentiment analysis failed"]

\* one try block without its except clause: the exception goes to the
\* handler's outer except (line 116) and the request ends with status 500
EngineCallUnguarded(section, raised, next) ==
    /\ op = section
    /\ IF raised
       THEN /\ op' = "done"
            /\ outcome' = HTTPException(500, "An unexpected error occurred")
            /\ failed' = failed \cup {section}
            /\ UNCHANGED args
       ELSE /\ op' = next
            /\ args' = (section :> EngineResult(section, keyword_of(args))) @@ args
            /\ UNCHANGED <<failed, outcome>>
    /\ UNCHANGED <<vocabulary, previous>>

\* one try block of lines 69-94: the engine's result, or the error object in
\* its place, is bound to the section's local; the handler goes on either way
EngineCall(section, raised, next) ==
    /\ op = section
    /\ op' = next
    /\ args' = (section :> (IF raised THEN ErrorSection(section)
                            ELSE EngineResult(section, keyword_of(args)))) @@ args
    /\ failed' = IF raised THEN failed \cup {section} ELSE failed
    /\ UNCHANGED <<vocabulary, outcome, previous>>

\* lines 67-73: researcher.analyze_keyword(keyword) returns or raises
ResearchKeyword ==
    \E raised \in BOOLEAN : EngineCall("keyword_analysis", raised, "seo_suggestions")

\* lines 75-84: generator.generate_seo_content(...) returns or raises
GenerateSeoContent ==
    \E raised \in BOOLEAN : EngineCall("seo_suggestions", raised, "sentiment_analysis")

\* lines 86-94: analyzer.analyze_content(...) returns or raises
AnalyzeContentAndSentiment ==
    \E raised \in BOOLEAN : EngineCall("sentiment_analysis", raised, "save")

\* lines 98-104
results(frame) ==
    [video_data         |-> frame.video_data,
     seo_suggestions    |-> frame.seo_suggestions,
     keyword_analysis   |-> frame.keyword_analysis,
     sentiment_analysis |-> frame.sentiment_analysis,
     timestamp          |-> "timestamp"]

\* lines 96-121: the report is written to the results directory and
\* returned; a failure to write it goes to the outer except clause
SaveResults ==
    /\ op = "save"
    /\ op' = "done"
    /\ \E written \in BOOLEAN :
          outcome' = IF written THEN Returned(results(args))
                     ELSE HTTPException(500, "An unexpected error occurred")
    /\ UNCHANGED <<vocabulary, args, failed, previous>>

NextHandler ==
    \/ Validate
    \/ InitializeComponents
    \/ ExtractVideoData
    \/ ResearchKeyword
    \/ GenerateSeoContent
    \/ AnalyzeContentAndSentiment
    \/ SaveResults

SpecHandler == InitHandler /\ [][NextHandler]_vars

ReportSections == {"keyword_analysis", "seo_suggestions", "sentiment_analysis"}

\* the engines whose step lies behind the handler
EnginesCalled ==
    CASE op = "seo_suggestions" -> {"keyword_analysis"}
      [] op = "sentiment_analysis" -> {"keyword_analysis", "seo_suggestions"}
      [] op = "save" -> ReportSections
      [] OTHER -> {}

\* C22: in the /analyze handler, when keyword research, SEO generation or
\* content analysis fails, that section of the merged report, and only that
\* one, is an object with just an error field; every engine is still called,
\* the sections of the engines that returned hold their full results, the
\* report carries video_data, seo_suggestions, keyword_analysis,
\* sentiment_analysis and timestamp, and no engine's failure ends the request
\* with an error response.
C22_EngineFailureDegradesOneSection ==
    /\ op \in ReportSections \cup {"save"} =>
          /\ outcome = NoOutcome
          /\ failed \subseteq EnginesCalled
          /\ \A section \in EnginesCalled : section \in DOMAIN args
    /\ (op = "done" /\ HasReturned) =>
          /\ DOMAIN outcome.value = ReportSections \cup {"video_data", "timestamp"}
          /\ outcome.value.video_data = args.video_data
          /\ \A section \in ReportSections :
                IF section \in failed
                THEN DOMAIN outcome.value[section] = {"error"}
                ELSE /\ "error" \notin DOMAIN outcome.value[section]
                     /\ outcome.value[section] = EngineResult(section, keyword_of(args))
    /\ (op = "done" /\ ~HasReturned /\ failed # {}) =>
          /\ ReportSections \subseteq DOMAIN args
          /\ outcome.status_code = 500

\* a request with a URL whose SEO generation alone failed got its report
C22_Witness ==
    /\ op = "done"
    /\ HasReturned
    /\ failed = {"seo_suggestions"}
    /\ args.request.url # ""
    /\ outcome.value.keyword_analysis.keyword = "Chess Openings"
    /\ "content_clusters" \in DOMAIN outcome.value.sentiment_analysis

-----------------------------------------------------------------------------
\* Frequency and density side by side, under SpecKeywords

\* C23: for every text and every target keyword, of one word or of several,
\* the frequency that _analyze_keywords reports is the match count in the
\* numerator of the density reported beside it: density = frequency / (number
\* of word tokens) whenever the text has at least one token.
C23_FrequencyIsDensityNumerator ==
    (/\ op = "_analyze_keywords"
     /\ HasReturned
     /\ TokenStarts(RequestText) # {}) =>
        outcome.value.keyword_metrics.density.num * Cardinality(TokenStarts(RequestText))
            = outcome.value.keyword_metrics.frequency
                * outcome.value.keyword_metrics.density.den

\* the density a finished call reports
ReportedDensity ==
    IF op = "_analyze_keywords" THEN outcome.value.keyword_metrics.density ELSE outcome.value

\* C24: for every text and every keyword, the empty keyword included, the
\* keyword density lies between 0 and 1.
C24_DensityWithinUnitInterval ==
    (op \in {"_calculate_keyword_density", "_analyze_keywords"} /\ HasReturned) =>
        /\ ReportedDensity.den > 0
        /\ ReportedDensity.num >= 0
        /\ ReportedDensity.num <= ReportedDensity.den

-----------------------------------------------------------------------------
\* The overall competition between the two platform scores, under
\* SpecCompetition

\* C25: for every input to _calculate_competition_metrics, overall_score lies
\* between youtube_score and web_score, so overall_competition is never a
\* higher level than the higher of youtube_competition and web_competition
\* and never a lower level than the lower of the two.
C25_OverallBetweenPlatforms ==
    (op = "_calculate_competition_metrics" /\ HasReturned) =>
        /\ outcome.value.overall_score >= Min(outcome.value.youtube_score, outcome.value.web_score)
        /\ outcome.value.overall_score <= Max(outcome.value.youtube_score, outcome.value.web_score)
        /\ LevelRank(outcome.value.overall_competition)
              >= Min(LevelRank(outcome.value.youtube_competition),
                     LevelRank(outcome.value.web_competition))
        /\ LevelRank(outcome.value.overall_competition)
              <= Max(LevelRank(outcome.value.youtube_competition),
                     LevelRank(outcome.value.web_competition))

\* a keyword with Very High competition on the platform and Very Low on the
\* web got Medium overall
C25_Witness ==
    /\ op = "_calculate_competition_metrics"
    /\ HasReturned
    /\ outcome.value.youtube_competition = "Very High"
    /\ outcome.value.web_competition = "Very Low"
    /\ outcome.value.web_score > 0
    /\ outcome.value.overall_competition = "Medium"

-----------------------------------------------------------------------------
(* Title and description generation with its GPT path (seo_generator.py,    *)
(* lines 53-124, 263-299 and 357-391). Every call between these functions is *)
(* a `return await ...`, so the function that is running, its use_gpt        *)
(* parameter and the calls made so far are the whole state: op is the        *)
(* function that is running, args its parameters together with the           *)
(* generator's two keys, previous the number of GPT requests sent so far,    *)
(* failed holds "gpt" once a GPT request failed, outcome is the result.      *)

MaxGptCalls == 3

GenerationKinds == {"titles", "description"}

\* _generate_titles or _generate_description
Generator(kind) == IF kind = "titles" THEN "_generate_titles" ELSE "_generate_description"

\* _generate_titles_with_gpt or _generate_description_with_gpt
GptGenerator(kind) ==
    IF kind = "titles" THEN "_generate_titles_with_gpt" ELSE "_generate_description_with_gpt"

\* the template part of _generate_titles or of _generate_description
Template(kind) == IF kind = "titles" THEN "titles_template" ELSE "description_template"

\* what the search for trending videos hands to the template (lines 263-299):
\* nothing without a key, else nothing (HttpError) or the titles found
TrendingSamples(youtube_api_key) ==
    IF youtube_api_key THEN { <<>>, <<"Chess in 10 Minutes">> } ELSE { <<>> }

\* lines 67-85: four patterns around the keyword, and the first trending
\* title, if any, before the last of them
title_patterns(keyword, trending) ==
    << <<"How to ", keyword, " - Complete Guide">>,
       <<"10 Best ", keyword, " Tips and Tricks">>,
       <<"The Ultimate ", keyword, " Guide">> >>
      \o (IF trending # <<>> THEN <<trending[1]>> ELSE <<>>)
      \o << <<keyword, " - Everything You Need to Know">> >>

\* lines 100-122: the fixed text around the keyword; the trending
\* descriptions are fetched and not used
description_template(keyword) == <<"In this video, we'll explore everything about ", keyword>>

template_result(kind, keyword, trending) ==
    IF kind = "titles" THEN title_patterns(keyword, trending) ELSE description_template(keyword)

\* what a GPT answer becomes (lines 370-372 and 389)
gpt_result(kind) == IF kind = "titles" THEN <<"GPT title">> ELSE "GPT description"

InitGeneration ==
    /\ vocabulary = {}
    /\ \E kind \in GenerationKinds, keyword \in {"", "chess"},
          use_gpt \in BOOLEAN, openai_api_key \in BOOLEAN, youtube_api_key \in BOOLEAN :
          /\ op = Generator(kind)
          /\ args = [kind |-> kind, keyword |-> keyword, use_gpt |-> use_gpt,
                     openai_api_key |-> openai_api_key, youtube_api_key |-> youtube_api_key]
    /\ outcome = NoOutcome
    /\ failed = {}
    /\ previous = 0

\* lines 60-61 and 94-95
Generate(kind) ==
    /\ op = Generator(kind)
    /\ op' = IF args.use_gpt /\ args.openai_api_key THEN GptGenerator(kind) ELSE Template(kind)
    /\ UNCHANGED <<vocabulary, args, outcome, failed, previous>>

\* lines 373-374 and 390-391: return await self._generate_...(keyword,
\* video_data, use_gpt=False)
FallBack(kind) ==
    /\ op' = Generator(kind)
    /\ args' = [args EXCEPT !.use_gpt = FALSE]

\* lines 357-391: one request to GPT; its answer is returned, or anything
\* raised inside the try block leads to the fall-back
GenerateWithGpt(kind) ==
    /\ op = GptGenerator(kind)
    /\ previous < MaxGptCalls
    /\ previous' = previous + 1
    /\ \/ /\ op' = "done"
          /\ outcome' = Returned(gpt_result(kind))
          /\ UNCHANGED <<args, failed>>
       \/ /\ FallBack(kind)
          /\ failed' = failed \cup {"gpt"}
          /\ UNCHANGED outcome
    /\ UNCHANGED vocabulary

\* lines 63-85 and 97-124: the trending search, then the template. The
\* search catches HttpError only: any other exception of request.execute()
\* or of reading the response leaves the function
FillTemplate(kind) ==
    /\ op = Template(kind)
    /\ op' = "done"
    /\ \/ \E trending \in TrendingSamples(args.youtube_api_key) :
             outcome' = Returned(template_result(kind, args.keyword, trending))
       \/ /\ args.youtube_api_key
          /\ outcome' = Raised("Exception")
    /\ UNCHANGED <<vocabulary, args, failed, previous>>

NextGeneration ==
    \E kind \in GenerationKinds :
        \/ Generate(kind)
        \/ GenerateWithGpt(kind)
        \/ FillTemplate(kind)

\* every awaited call comes back, with a value or with an exception
SpecGeneration == InitGeneration /\ [][NextGeneration]_vars /\ WF_vars(NextGeneration)

\* after a failed GPT request the generation ends by returning the
\* template's result, reached with use_gpt = False
TemplateAfterFailedGpt ==
    (op = "done" /\ "gpt" \in failed) =>
        /\ ~args.use_gpt
        /\ HasReturned
        /\ \E trending \in TrendingSamples(args.youtube_api_key) :
              outcome.value = template_result(args.kind, args.keyword, trending)

\* C26: when the GPT call fails while titles or a description are generated,
\* generation falls back to the template path with use_gpt = False, which
\* never calls GPT again: each generation sends at most one request to GPT
\* and always comes to its end, and after a failed request what it returns is
\* the template's result.
C26_OneGptAttemptThenTemplate ==
    /\ [](previous <= 1)
    /\ []TemplateAfterFailedGpt
    /\ <>(op = "done")

-----------------------------------------------------------------------------
(* YouTubeExtractor._extract_comments (youtube_extractor.py, lines          *)
(* 133-181). args holds the parameters and the local variables of the call:  *)
(* comments is the length of the list collected so far, request whether      *)
(* there is a request to execute, pages the number of requests executed.     *)

page_limit == 100
MaxPages == 3

\* maxResults = min(max_comments, 100)
maxResults(max_comments) == Min(max_comments, page_limit)

\* one page of the API: at most maxResults items, of which some may lack
\* the snippet of a top-level comment and are skipped (lines 155-157)
PageSamples(max_comments) ==
    { [items |-> items, skipped |-> skipped] :
        items \in {n \in {0, 1, 60, maxResults(max_comments)} : n <= maxResults(max_comments)},
        skipped \in {0, 1} }

InitExtract ==
    /\ vocabulary = {}
    /\ op = "_extract_comments"
    /\ \E max_comments \in {0, 1, 2, 100, 150}, api_key \in BOOLEAN :
          args = [max_comments |-> max_comments, api_key |-> api_key,
                  comments |-> 0, request |-> TRUE, pages |-> 0]
    /\ outcome = NoOutcome
    /\ failed = {}
    /\ previous = {}

\* lines 135-145
BeginExtract ==
    /\ op = "_extract_comments"
    /\ IF args.api_key
       THEN op' = "while" /\ UNCHANGED outcome
       ELSE op' = "done" /\ outcome' = Returned(0)
    /\ UNCHANGED <<vocabulary, args, failed, previous>>

\* lines 154-172 for one page: the comments are appended, then the loop is
\* left when max_comments is reached, else the next request is taken, which
\* is None after the last page
TakePage(page, has_next) ==
    /\ args' = [args EXCEPT !.comments = @ + page.items - Min(page.skipped, page.items),
                            !.pages = @ + 1,
                            !.request = has_next]
    /\ IF args.comments + page.items - Min(page.skipped, page.items) >= args.max_comments
       THEN op' = "return"
       ELSE op' = "while"
    /\ UNCHANGED <<outcome, failed>>

\* lines 147-172: the loop test, and one execution of the request: it
\* raises, or answers without items, or answers with a page
Iterate ==
    /\ op = "while"
    /\ IF ~(args.request /\ args.comments < args.max_comments)
       THEN op' = "return" /\ UNCHANGED <<args, outcome, failed>>
       ELSE \/ \* lines 176-181
               /\ op' = "done"
               /\ outcome' = Returned(0)
               /\ failed' = {"request.execute"}
               /\ args' = [args EXCEPT !.pages = @ + 1]
            \/ \* lines 150-152
               /\ op' = "return"
               /\ args' = [args EXCEPT !.pages = @ + 1]
               /\ UNCHANGED <<outcome, failed>>
            \/ \E page \in PageSamples(args.max_comments), has_next \in BOOLEAN :
                  TakePage(page, has_next /\ args.pages + 1 < MaxPages)
    /\ UNCHANGED <<vocabulary, previous>>

\* line 175
ReturnComments ==
    /\ op = "return"
    /\ op' = "done"
    /\ outcome' = Returned(args.comments)
    /\ UNCHANGED <<vocabulary, args, failed, previous>>

NextExtract ==
    \/ BeginExtract
    \/ Iterate
    \/ ReturnComments

\* every request to the API comes back, with a response or an exception
SpecExtract == InitExtract /\ [][NextExtract]_vars /\ WF_vars(NextExtract)

\* a page was requested in this step
PageRequested == op = "while" /\ args'.pages = args.pages + 1

\* C27: _extract_comments never returns more than max_comments comments,
\* whatever max_comments is and whatever pages the API serves (each of at
\* most min(max_comments, 100) items), and it requests no further page once
\* max_comments comments are collected or there is no next page.
C27_CommentsCapped ==
    /\ []((op = "done") => (HasReturned /\ outcome.value <= args.max_comments))
    /\ [][PageRequested => (args.request /\ args.comments < args.max_comments)]_vars

=============================================================================
